---------------------------- MODULE Spec2Model ----------------------------
(***************************************************************************)
(* Storage core of ZeepubsBot: schema registry, migration engine,          *)
(* per-thread connection manager and execution facade                      *)
(* (src/data/database_config.py, src/data/database_connection.py).         *)
(*                                                                         *)
(* The SQLite engine and Python's sqlite3 module are the environment.      *)
(* They are modelled by what they do for this code:                        *)
(*   - a connection is in autocommit mode until a transaction is opened;   *)
(*     sqlite3 opens one implicitly before INSERT/UPDATE/DELETE/REPLACE    *)
(*     only, never before DDL, and never commits implicitly (the source    *)
(*     uses f-strings, so it runs on Python >= 3.6);                       *)
(*   - a statement run in autocommit mode is committed on its own;         *)
(*   - a failing statement has no effect of its own and leaves the         *)
(*     transaction it ran in open;                                         *)
(*   - there is one writer at a time; closing a connection rolls back      *)
(*     its open transaction;                                               *)
(*   - any statement may fail (I/O error, lock timeout, ...).              *)
(*   - ANALYZE, VACUUM and REINDEX write and so need the writer's place;   *)
(*     VACUUM is refused inside a transaction;                             *)
(*   - Connection.backup copies the committed store in one step and        *)
(*     waits while its own source connection holds uncommitted changes;    *)
(*   - conn.close() succeeds, except in SpecClose where any subset of      *)
(*     the close() calls of close_all_connections may raise.               *)
(***************************************************************************)
EXTENDS Integers, Sequences, FiniteSets, TLC

(***************************************************************************)
(* Bounds of the model.                                                    *)
(***************************************************************************)
\* connection objects ever created
MaxConns == 3
\* operations in one execute_transaction batch
MaxOps == 2

Threads == {"T0", "T1", "T2"}
\* the thread that calls get_database() first and so runs __init__
MainThread == "T0"
NoThread == "none"
BookIds == {"b1"}

(***************************************************************************)
(* Schema Registry: DatabaseSchema.  A DDL statement is the object it      *)
(* creates (IF NOT EXISTS) and the table it is created on ("" for a table).*)
(***************************************************************************)
Table(name) == [obj |-> name, on |-> ""]
Index(name, tbl) == [obj |-> name, on |-> tbl]

BooksTable == Table("books")
BookStatsTable == Table("book_stats")
UserPreferencesTable == Table("user_preferences")
SchemaVersionTable == Table("schema_version")

TablesDefinition == <<BooksTable, BookStatsTable, UserPreferencesTable>>

IndexesDefinition ==
  << Index("idx_books_book_id", "books"),
     Index("idx_books_title", "books"),
     Index("idx_books_author", "books"),
     Index("idx_books_language", "books"),
     Index("idx_books_type", "books"),
     Index("idx_books_created_at", "books"),
     Index("idx_books_title_author", "books"),
     Index("idx_books_language_type", "books"),
     Index("idx_book_stats_book_id", "book_stats"),
     Index("idx_book_stats_downloads", "book_stats"),
     Index("idx_book_stats_last_accessed", "book_stats"),
     Index("idx_user_preferences_user_id", "user_preferences") >>

TriggersDefinition ==
  << Index("trigger_books_updated_at", "books"),
     Index("trigger_user_preferences_updated_at", "user_preferences"),
     Index("trigger_create_book_stats", "books") >>

(***************************************************************************)
(* DatabaseMigrator.get_migrations: Python slices [a:b] are SubSeq(a+1,b). *)
(***************************************************************************)
MigrationV1 == <<BooksTable>> \o SubSeq(IndexesDefinition, 1, 6)

MigrationV2 ==
  <<BookStatsTable>> \o SubSeq(IndexesDefinition, 7, 9) \o <<TriggersDefinition[3]>>

MigrationV3 ==
  <<UserPreferencesTable, IndexesDefinition[Len(IndexesDefinition)]>>
    \o SubSeq(TriggersDefinition, 1, 2)

Migrations == <<MigrationV1, MigrationV2, MigrationV3>>

\* (mutant) the dictionary lists version 3 before version 2
MigrationOrderSwapped == <<1, 3, 2>>

\* the versions in the order the dictionary of get_migrations yields them
MigrationOrder == <<1, 2, 3>>

Range(s) == {s[i] : i \in DOMAIN s}
ObjsOf(stmts) == {stmts[i].obj : i \in DOMAIN stmts}

\* every table, index and trigger the Schema Registry declares
RegistryObjects ==
  ObjsOf(TablesDefinition) \cup ObjsOf(IndexesDefinition) \cup ObjsOf(TriggersDefinition)

(***************************************************************************)
(* The store file: schema objects, schema_version rows in insertion        *)
(* order, rows of books (by book_id) and the book_ids that have rows in    *)
(* book_stats.                                                             *)
(***************************************************************************)
EmptyStore == [objs |-> {}, vers |-> <<>>, books |-> {}, stats |-> {}]

\* CREATE ... IF NOT EXISTS: TRUE when the statement can run on store s
DdlOk(s, st) == st.on = "" \/ st.on \in s.objs

DdlApply(s, st) == [s EXCEPT !.objs = @ \cup {st.obj}]

\* INSERT INTO schema_version (version, ...): version is the PRIMARY KEY
RecordOk(s, v) == "schema_version" \in s.objs /\ v \notin Range(s.vers)

RecordApply(s, v) == [s EXCEPT !.vers = Append(@, v)]

\* SELECT MAX(version) FROM schema_version, NULL mapped to 0
RECURSIVE SeqMax(_)
SeqMax(s) ==
  IF s = <<>> THEN 0
  ELSE LET m == SeqMax(Tail(s)) IN IF Head(s) > m THEN Head(s) ELSE m

\* (mutant) the first recorded version instead of the greatest
MaxVersionFirst(s) == IF s.vers = <<>> THEN 0 ELSE Head(s.vers)

MaxVersion(s) == SeqMax(s.vers)


(***************************************************************************)
(* State.                                                                  *)
(*   db           committed contents of the store file                     *)
(*   conns        every sqlite3.Connection created so far, by identity     *)
(*   connections  self._connections: thread id -> connection identity      *)
(*   lock         the thread holding self._lock, or NoThread               *)
(*   db_manager   TRUE when the module singleton _db_manager is set        *)
(*   pc, loc      each thread's position and local variables               *)
(*   ret          how each thread's last call ended                        *)
(*   runStart     the store as committed when the running initialization   *)
(*                began                                                    *)
(*   backup       the file backup_database writes: <<>> while it does not   *)
(*                exist, else <<its contents>>                             *)
(***************************************************************************)
VARIABLES db, conns, connections, lock, db_manager, pc, loc, ret, runStart, backup

vars == <<db, conns, connections, lock, db_manager, pc, loc, ret, runStart, backup>>

NoConn == 0

\* DatabaseConstants.SQLITE_PRAGMA_SETTINGS, in the order the loop applies them
PragmaSettings ==
  << <<"journal_mode", "WAL">>, <<"synchronous", "NORMAL">>, <<"cache_size", "-64000">>,
     <<"temp_store", "MEMORY">>, <<"mmap_size", "268435456">>, <<"foreign_keys", "ON">> >>

\* a connection as sqlite3.connect returns it and _setup_connection_settings
\* leaves it; pragmas is the number of settings of PragmaSettings applied
NewConn == [open |-> TRUE, intx |-> FALSE, pend |-> <<>>, pragmas |-> Len(PragmaSettings)]

\* how a call ended: returned or raised, the value returned, the connection
\* it ran on, and for a failure the place, the migration position and the
\* size of the registry at that moment
NoRet ==
  [op |-> "", kind |-> "none", val |-> 0, conn |-> NoConn, at |-> "", v |-> 0, i |-> 0,
   n |-> 0]

\* a thread's locals; prev is the outcome of its previous call, kept by a
\* caller that compares two consecutive calls
IdleLoc ==
  [op |-> "", conn |-> NoConn, cur |-> 0, v |-> 0, i |-> 0, ops |-> <<>>, prev |-> NoRet]

(***************************************************************************)
(* The engine as seen through one connection.                              *)
(***************************************************************************)
\* what connection c reads: its own uncommitted changes, else the committed store
View(c) == IF conns[c].pend # <<>> THEN conns[c].pend[1] ELSE db

\* another connection holds the store's write lock
OtherWriter(c) == \E d \in DOMAIN conns : d # c /\ conns[d].pend # <<>>

\* a DDL statement that succeeded on c, leaving the store c sees as s2:
\* inside an open transaction it stays pending, otherwise it is committed at once
DdlDone(c, s2) ==
  IF conns[c].intx
  THEN /\ conns' = [conns EXCEPT ![c].pend = <<s2>>]
       /\ db' = db
  ELSE /\ db' = s2
       /\ conns' = conns

\* a DML statement that succeeded on c: sqlite3 opened a transaction before it
DmlDone(c, s2) ==
  /\ conns' = [conns EXCEPT ![c].intx = TRUE, ![c].pend = <<s2>>]
  /\ db' = db

\* a DML statement that failed on c: the implicit BEGIN stays
DmlFailed(c) ==
  /\ conns' = [conns EXCEPT ![c].intx = conns[c].open]
  /\ db' = db

\* conn.commit()
CommitDone(c) ==
  /\ db' = View(c)
  /\ conns' = [conns EXCEPT ![c].intx = FALSE, ![c].pend = <<>>]

\* conn.close(): an open transaction is rolled back
Closed(cn) == [cn EXCEPT !.open = FALSE, !.intx = FALSE, !.pend = <<>>]

(***************************************************************************)
(* get_connection (context manager).                                       *)
(***************************************************************************)
BodyStart(op) ==
  CASE op = "init" -> "i_setup"
    [] op = "schema_version" -> "sv_exec"
    [] op = "query" -> "q_exec"
    [] op = "command" -> "c_exec"
    [] op = "transaction" -> "t_begin"
    [] op = "optimize" -> "o_exec"
    [] op = "maintenance" -> "rm_exec"
    [] op = "backup" -> "b_copy"
    [] op = "last_id" -> "li_read"
    [] op = "stats" -> "st_exec"

\* a statement failed inside the scope: the exception reaches get_connection's handler
Throw(t, at) ==
  /\ pc' = [pc EXCEPT ![t] = "ex_enter"]
  /\ ret' = [ret EXCEPT ![t] = [NoRet EXCEPT !.op = loc[t].op, !.at = at,
                                            !.v = loc[t].v, !.i = loc[t].i,
                                            !.conn = loc[t].conn,
                                            !.n = Cardinality(DOMAIN connections)]]
  /\ loc' = [loc EXCEPT ![t].prev = NoRet]

\* (mutant) the lookup is skipped: every call creates a connection
GetConnectionEnterAlwaysNew(t) ==
  /\ pc[t] = "gc_enter"
  /\ lock = NoThread
  /\ lock' = t
  /\ pc' = [pc EXCEPT ![t] = "gc_create"]
  /\ UNCHANGED <<db, conns, connections, db_manager, loc, ret, runStart, backup>>

\* with self._lock: look the calling thread up; an entry found is returned
\* with the lock released, otherwise the lock is kept for _create_connection
GetConnectionEnter(t) ==
  /\ pc[t] = "gc_enter"
  /\ lock = NoThread
  /\ IF t \in DOMAIN connections
     THEN /\ loc' = [loc EXCEPT ![t].conn = connections[t]]
          /\ pc' = [pc EXCEPT ![t] = BodyStart(loc[t].op)]
          /\ lock' = lock
     ELSE /\ lock' = t
          /\ pc' = [pc EXCEPT ![t] = "gc_create"]
          /\ loc' = loc
  /\ UNCHANGED <<db, conns, connections, db_manager, ret, runStart, backup>>

\* (mutant) the new connection is handed out but not stored in the registry
CreateConnectionUnregistered(t) ==
  /\ pc[t] = "gc_create"
  /\ lock = t
  /\ Len(conns) < MaxConns
  /\ conns' = Append(conns, [open |-> TRUE, intx |-> FALSE, pend |-> <<>>, pragmas |-> 6])
  /\ loc' = [loc EXCEPT ![t].conn = Len(conns) + 1]
  /\ pc' = [pc EXCEPT ![t] = BodyStart(loc[t].op)]
  /\ lock' = NoThread
  /\ UNCHANGED <<db, connections, db_manager, ret, runStart, backup>>

\* (mutant) one connection object is shared: the first one created is
\* registered for every thread
CreateConnectionShared(t) ==
  /\ pc[t] = "gc_create"
  /\ lock = t
  /\ Len(conns) >= 1
  /\ connections' = [u \in DOMAIN connections \cup {t} |->
                       IF u = t THEN 1 ELSE connections[u]]
  /\ loc' = [loc EXCEPT ![t].conn = 1]
  /\ pc' = [pc EXCEPT ![t] = BodyStart(loc[t].op)]
  /\ lock' = NoThread
  /\ UNCHANGED <<db, conns, db_manager, ret, runStart, backup>>

\* (mutant) a failed connection creation is attempted again within the call
CreateConnectionRetried(t) ==
  /\ pc[t] = "gc_create"
  /\ lock = t
  /\ \E ok \in BOOLEAN :
       IF ok /\ Len(conns) < MaxConns
       THEN /\ conns' = Append(conns, [open |-> TRUE, intx |-> FALSE, pend |-> <<>>,
                                       pragmas |-> 6])
            /\ connections' = [u \in DOMAIN connections \cup {t} |->
                                 IF u = t THEN Len(conns) + 1 ELSE connections[u]]
            /\ loc' = [loc EXCEPT ![t].conn = Len(conns) + 1]
            /\ pc' = [pc EXCEPT ![t] = BodyStart(loc[t].op)]
       ELSE /\ pc' = [pc EXCEPT ![t] = "gc_enter"]
            /\ UNCHANGED <<conns, connections, loc>>
  /\ lock' = NoThread
  /\ UNCHANGED <<db, db_manager, ret, runStart, backup>>

\* (mutant) a failure of the PRAGMA loop is swallowed: the connection is
\* registered with only the settings applied before the failure
CreateConnectionHalfConfigured(t) ==
  /\ pc[t] = "gc_create"
  /\ lock = t
  /\ \E ok \in BOOLEAN :
       IF Len(conns) < MaxConns
       THEN /\ \E k \in 0..5 :
                 conns' = Append(conns, [open |-> TRUE, intx |-> FALSE, pend |-> <<>>,
                                         pragmas |-> IF ok THEN 6 ELSE k])
            /\ connections' = [u \in DOMAIN connections \cup {t} |->
                                 IF u = t THEN Len(conns) + 1 ELSE connections[u]]
            /\ loc' = [loc EXCEPT ![t].conn = Len(conns) + 1]
            /\ pc' = [pc EXCEPT ![t] = BodyStart(loc[t].op)]
            /\ ret' = ret
       ELSE /\ Throw(t, "gc_create")
            /\ UNCHANGED <<conns, connections>>
  /\ lock' = NoThread
  /\ UNCHANGED <<db, db_manager, runStart, backup>>

\* (mutant) a failed creation leaves the with block without releasing the lock
CreateConnectionKeepsLock(t) ==
  /\ pc[t] = "gc_create"
  /\ lock = t
  /\ \E ok \in BOOLEAN :
       IF ok /\ Len(conns) < MaxConns
       THEN /\ conns' = Append(conns, [open |-> TRUE, intx |-> FALSE, pend |-> <<>>,
                                       pragmas |-> 6])
            /\ connections' = [u \in DOMAIN connections \cup {t} |->
                                 IF u = t THEN Len(conns) + 1 ELSE connections[u]]
            /\ loc' = [loc EXCEPT ![t].conn = Len(conns) + 1]
            /\ pc' = [pc EXCEPT ![t] = BodyStart(loc[t].op)]
            /\ ret' = ret
            /\ lock' = NoThread
       ELSE /\ Throw(t, "gc_create")
            /\ lock' = lock
            /\ UNCHANGED <<conns, connections>>
  /\ UNCHANGED <<db, db_manager, runStart, backup>>

\* _create_connection under the lock: sqlite3.connect and the PRAGMA settings;
\* on success the connection is registered, on failure the exception leaves
\* the with block (releasing the lock) and reaches the handler
CreateConnection(t) ==
  /\ pc[t] = "gc_create"
  /\ lock = t
  /\ \E ok \in BOOLEAN :
       IF ok /\ Len(conns) < MaxConns
       THEN /\ conns' = Append(conns, NewConn)
            /\ connections' = [u \in DOMAIN connections \cup {t} |->
                                 IF u = t THEN Len(conns) + 1 ELSE connections[u]]
            /\ loc' = [loc EXCEPT ![t].conn = Len(conns) + 1]
            /\ pc' = [pc EXCEPT ![t] = BodyStart(loc[t].op)]
            /\ ret' = ret
       ELSE /\ Throw(t, "gc_create")
            /\ UNCHANGED <<conns, connections>>
  /\ lock' = NoThread
  /\ UNCHANGED <<db, db_manager, runStart, backup>>

\* (mutant) every caller answers the exception with a normal result
OutcomeSwallowed(op) == [kind |-> "returned", val |-> 0]

\* (mutant) every caller lets the exception through
OutcomeRaised(op) == [kind |-> "raised", val |-> 0]

\* what the caller of get_connection does with the exception
Outcome(op) ==
  CASE op \in {"transaction", "optimize", "maintenance", "backup"} ->
         [kind |-> "returned", val |-> FALSE]
    [] op \in {"schema_version", "last_id"} -> [kind |-> "returned", val |-> 0]
    [] op = "stats" -> [kind |-> "returned", val |-> {}]
    [] OTHER -> [kind |-> "raised", val |-> 0]

\* (mutant) the connection is closed but its entry stays in the registry
EvictKeepEntry(t) ==
  /\ pc[t] = "ex_enter"
  /\ lock = NoThread
  /\ IF t \in DOMAIN connections
     THEN conns' = [conns EXCEPT ![connections[t]] = Closed(@)]
     ELSE conns' = conns
  /\ pc' = [pc EXCEPT ![t] = "idle"]
  /\ ret' = [ret EXCEPT ![t].kind = Outcome(loc[t].op).kind,
                        ![t].val = Outcome(loc[t].op).val]
  /\ loc' = [loc EXCEPT ![t] = IdleLoc]
  /\ UNCHANGED <<db, connections, lock, db_manager, runStart, backup>>

\* (mutant) the handler closes every registered connection and clears the
\* registry
EvictDropsAll(t) ==
  /\ pc[t] = "ex_enter"
  /\ lock = NoThread
  /\ conns' = [c \in DOMAIN conns |->
                 IF \E u \in DOMAIN connections : connections[u] = c
                 THEN Closed(conns[c]) ELSE conns[c]]
  /\ connections' = [u \in {} |-> NoConn]
  /\ pc' = [pc EXCEPT ![t] = "idle"]
  /\ ret' = [ret EXCEPT ![t].kind = Outcome(loc[t].op).kind,
                        ![t].val = Outcome(loc[t].op).val]
  /\ loc' = [loc EXCEPT ![t] = IdleLoc]
  /\ UNCHANGED <<db, lock, db_manager, runStart, backup>>

\* (mutant) the handler only re-raises: the connection stays open and
\* registered with whatever the failed call left on it
EvictLeavesOpen(t) ==
  /\ pc[t] = "ex_enter"
  /\ lock = NoThread
  /\ pc' = [pc EXCEPT ![t] = "idle"]
  /\ ret' = [ret EXCEPT ![t].kind = Outcome(loc[t].op).kind,
                        ![t].val = Outcome(loc[t].op).val]
  /\ loc' = [loc EXCEPT ![t] = IdleLoc]
  /\ UNCHANGED <<db, conns, connections, lock, db_manager, runStart, backup>>

\* except Exception: under the lock close and drop the calling thread's
\* entry, then re-raise to the caller
Evict(t) ==
  /\ pc[t] = "ex_enter"
  /\ lock = NoThread
  /\ IF t \in DOMAIN connections
     THEN /\ conns' = [conns EXCEPT ![connections[t]] = Closed(@)]
          /\ connections' = [u \in DOMAIN connections \ {t} |-> connections[u]]
     ELSE UNCHANGED <<conns, connections>>
  /\ pc' = [pc EXCEPT ![t] = "idle"]
  /\ ret' = [ret EXCEPT ![t].kind = Outcome(loc[t].op).kind,
                        ![t].val = Outcome(loc[t].op).val]
  /\ loc' = [loc EXCEPT ![t] = IdleLoc]
  /\ UNCHANGED <<db, lock, db_manager, runStart, backup>>

(***************************************************************************)
(* Startup: get_database -> DatabaseConnection.__init__ ->                 *)
(* _initialize_database, all inside one get_connection scope.              *)
(***************************************************************************)
\* a statement that only reads or configures: it succeeds or it fails
PlainStep(t, at, nextpc) ==
  /\ \E ok \in BOOLEAN :
       IF ok /\ conns[loc[t].conn].open
       THEN /\ pc' = [pc EXCEPT ![t] = nextpc]
            /\ loc' = [loc EXCEPT ![t].i = 1]
            /\ ret' = ret
       ELSE Throw(t, at)
  /\ UNCHANGED <<db, conns>>

\* cursor.execute of one CREATE ... IF NOT EXISTS statement on the thread's
\* connection; then control moves to (nextpc, nexti)
DdlStep(t, st, at, nextpc, nexti) ==
  LET c == loc[t].conn IN
  \E ok \in BOOLEAN :
    IF ok /\ conns[c].open /\ DdlOk(View(c), st)
          /\ (st.obj \in View(c).objs \/ ~OtherWriter(c))
    THEN /\ IF st.obj \in View(c).objs
            THEN UNCHANGED <<db, conns>>
            ELSE DdlDone(c, DdlApply(View(c), st))
         /\ pc' = [pc EXCEPT ![t] = nextpc]
         /\ loc' = [loc EXCEPT ![t].i = nexti]
         /\ ret' = ret
    ELSE /\ Throw(t, at)
         /\ UNCHANGED <<db, conns>>

\* conn.commit() on the thread's connection
CommitStep(t, at, nextpc) ==
  LET c == loc[t].conn IN
  \E ok \in BOOLEAN :
    IF ok /\ conns[c].open
    THEN /\ CommitDone(c)
         /\ pc' = [pc EXCEPT ![t] = nextpc]
         /\ loc' = [loc EXCEPT ![t].i = 1]
         /\ ret' = ret
    ELSE /\ Throw(t, at)
         /\ UNCHANGED <<db, conns>>

\* the first position j >= k of the migration dictionary whose version is
\* above current_version, 0 when there is none
NextPending(k, cur) ==
  LET S == {j \in k..Len(MigrationOrder) : MigrationOrder[j] > cur}
  IN IF S = {} THEN 0 ELSE CHOOSE j \in S : \A j2 \in S : j <= j2

\* control after position k of the loop over migrations.items()
LoopFrom(t, k) ==
  LET j == NextPending(k, loc'[t].cur) IN
  pc' = [pc EXCEPT ![t] = IF j = 0 THEN "m_commit" ELSE "m_stmt"]

\* (mutant) the singleton is assigned before the instance is initialized
GetDatabaseEager(t) ==
  /\ pc[t] = "idle"
  /\ ~db_manager
  /\ db_manager' = TRUE
  /\ pc' = [pc EXCEPT ![t] = "gc_enter"]
  /\ loc' = [loc EXCEPT ![t] = [IdleLoc EXCEPT !.op = "init"]]
  /\ ret' = [ret EXCEPT ![t] = NoRet]
  /\ runStart' = db
  /\ UNCHANGED <<db, conns, connections, lock, backup>>

\* get_database(): if _db_manager is None: _db_manager = DatabaseConnection()
GetDatabase(t) ==
  /\ pc[t] = "idle"
  /\ ~db_manager
  /\ pc' = [pc EXCEPT ![t] = "gc_enter"]
  /\ loc' = [loc EXCEPT ![t] = [IdleLoc EXCEPT !.op = "init"]]
  /\ ret' = [ret EXCEPT ![t] = NoRet]
  /\ runStart' = db
  /\ UNCHANGED <<db, conns, connections, lock, db_manager, backup>>

\* (mutant) the instance is published once its connection is configured,
\* before the migrations run
SetupConnectionSettingsExposes(t) ==
  /\ pc[t] = "i_setup"
  /\ PlainStep(t, "i_setup", "m_table")
  /\ db_manager' = TRUE
  /\ UNCHANGED <<connections, lock, runStart, backup>>

\* for pragma, value in SQLITE_PRAGMA_SETTINGS.items(): cursor.execute(...)
SetupConnectionSettings(t) ==
  /\ pc[t] = "i_setup"
  /\ PlainStep(t, "i_setup", "m_table")
  /\ UNCHANGED <<connections, lock, db_manager, runStart, backup>>

RunMigrationsTable(t) ==
  /\ pc[t] = "m_table"
  /\ DdlStep(t, SchemaVersionTable, "m_table", "m_read", 1)
  /\ UNCHANGED <<connections, lock, db_manager, runStart, backup>>

\* SELECT MAX(version) FROM schema_version, then the loop is entered
RunMigrationsRead(t) ==
  LET c == loc[t].conn IN
  /\ pc[t] = "m_read"
  /\ \E ok \in BOOLEAN :
       IF ok /\ conns[c].open /\ "schema_version" \in View(c).objs
       THEN /\ loc' = [loc EXCEPT ![t].cur = MaxVersion(View(c)),
                                  ![t].v = NextPending(1, MaxVersion(View(c))),
                                  ![t].i = 1]
            /\ LoopFrom(t, 1)
            /\ ret' = ret
       ELSE Throw(t, "m_read")
  /\ UNCHANGED <<db, conns, connections, lock, db_manager, runStart, backup>>

\* for command in commands: cursor.execute(command)
RunMigrationsStmt(t) ==
  LET cmds == Migrations[MigrationOrder[loc[t].v]]
      i == loc[t].i
  IN /\ pc[t] = "m_stmt"
     /\ DdlStep(t, cmds[i], "m_stmt",
                IF i = Len(cmds) THEN "m_record" ELSE "m_stmt", i + 1)
     /\ UNCHANGED <<connections, lock, db_manager, runStart, backup>>

\* INSERT INTO schema_version (version, description), then the next version
RunMigrationsRecord(t) ==
  LET c == loc[t].conn
      ver == MigrationOrder[loc[t].v]
  IN /\ pc[t] = "m_record"
     /\ \E ok \in BOOLEAN :
          IF ok /\ conns[c].open /\ RecordOk(View(c), ver) /\ ~OtherWriter(c)
          THEN /\ DmlDone(c, RecordApply(View(c), ver))
               /\ loc' = [loc EXCEPT ![t].v = NextPending(loc[t].v + 1, loc[t].cur),
                                     ![t].i = 1]
               /\ LoopFrom(t, loc[t].v + 1)
               /\ ret' = ret
          ELSE /\ Throw(t, "m_record")
               /\ DmlFailed(c)
     /\ UNCHANGED <<connections, lock, db_manager, runStart, backup>>

\* conn.commit() after the loop
RunMigrationsCommit(t) ==
  /\ pc[t] = "m_commit"
  /\ CommitStep(t, "m_commit", "x_index")
  /\ UNCHANGED <<connections, lock, db_manager, runStart, backup>>

CreateIndexes(t) ==
  LET i == loc[t].i IN
  /\ pc[t] = "x_index"
  /\ DdlStep(t, IndexesDefinition[i], "x_index",
             IF i = Len(IndexesDefinition) THEN "x_commit" ELSE "x_index", i + 1)
  /\ UNCHANGED <<connections, lock, db_manager, runStart, backup>>

CreateIndexesCommit(t) ==
  /\ pc[t] = "x_commit"
  /\ CommitStep(t, "x_commit", "g_trigger")
  /\ UNCHANGED <<connections, lock, db_manager, runStart, backup>>

CreateTriggers(t) ==
  LET i == loc[t].i IN
  /\ pc[t] = "g_trigger"
  /\ DdlStep(t, TriggersDefinition[i], "g_trigger",
             IF i = Len(TriggersDefinition) THEN "g_commit" ELSE "g_trigger", i + 1)
  /\ UNCHANGED <<connections, lock, db_manager, runStart, backup>>

CreateTriggersCommit(t) ==
  /\ pc[t] = "g_commit"
  /\ CommitStep(t, "g_commit", "v_check")
  /\ UNCHANGED <<connections, lock, db_manager, runStart, backup>>

\* PRAGMA integrity_check; anything but "ok" raises.  Leaving the scope
\* normally ends __init__, and get_database sets the singleton
VerifyDatabaseIntegrity(t) ==
  /\ pc[t] = "v_check"
  /\ \E ok \in BOOLEAN :
       IF ok /\ conns[loc[t].conn].open
       THEN /\ pc' = [pc EXCEPT ![t] = "idle"]
            /\ ret' = [ret EXCEPT ![t] = [NoRet EXCEPT !.op = "init", !.kind = "returned",
                                                      !.conn = loc[t].conn]]
            /\ loc' = [loc EXCEPT ![t] = IdleLoc]
            /\ db_manager' = TRUE
       ELSE /\ Throw(t, "v_check")
            /\ db_manager' = db_manager
  /\ UNCHANGED <<db, conns, connections, lock, runStart, backup>>

(***************************************************************************)
(* Introspection and shutdown.                                             *)
(***************************************************************************)
\* a facade call begins: the caller holds the instance get_database returned
Call(t, op, ops, prev) ==
  /\ pc[t] = "idle"
  /\ db_manager
  /\ pc' = [pc EXCEPT ![t] = "gc_enter"]
  /\ loc' = [loc EXCEPT ![t] = [IdleLoc EXCEPT !.op = op, !.ops = ops, !.i = 1,
                                               !.prev = prev]]
  /\ ret' = [ret EXCEPT ![t] = NoRet]
  /\ UNCHANGED <<db, conns, connections, lock, db_manager, runStart, backup>>

\* a facade call returns val from inside the scope
Return(t, val) ==
  /\ pc' = [pc EXCEPT ![t] = "idle"]
  /\ ret' = [ret EXCEPT ![t] = [NoRet EXCEPT !.op = loc[t].op, !.kind = "returned",
                                            !.val = val, !.conn = loc[t].conn]]
  /\ loc' = [loc EXCEPT ![t] = IdleLoc]

GetSchemaVersionCall(t) == Call(t, "schema_version", <<>>, NoRet)

\* (mutant) get_schema_version answers a failed read with 0 itself, the
\* exception never reaching the handler of get_connection
GetSchemaVersionNoScope(t) ==
  LET c == loc[t].conn IN
  /\ pc[t] = "sv_exec"
  /\ \E ok \in BOOLEAN :
       IF ok /\ conns[c].open /\ "schema_version" \in View(c).objs
       THEN Return(t, MaxVersion(View(c)))
       ELSE /\ pc' = [pc EXCEPT ![t] = "idle"]
            /\ ret' = [ret EXCEPT ![t] = [NoRet EXCEPT !.op = "schema_version",
                                                      !.kind = "returned",
                                                      !.at = "sv_exec",
                                                      !.conn = c]]
            /\ loc' = [loc EXCEPT ![t] = IdleLoc]
  /\ UNCHANGED <<db, conns, connections, lock, db_manager, runStart, backup>>

\* SELECT MAX(version) FROM schema_version; result[0] if result[0] else 0
GetSchemaVersion(t) ==
  LET c == loc[t].conn IN
  /\ pc[t] = "sv_exec"
  /\ \E ok \in BOOLEAN :
       IF ok /\ conns[c].open /\ "schema_version" \in View(c).objs
       THEN Return(t, MaxVersion(View(c)))
       ELSE Throw(t, "sv_exec")
  /\ UNCHANGED <<db, conns, connections, lock, db_manager, runStart, backup>>

\* the statements of get_database_stats in order
StatsQueries ==
  <<"COUNT books", "sqlite_master book_stats", "COUNT book_stats", "PRAGMA page_count",
    "PRAGMA page_size", "MAX version">>

\* the table a statement of get_database_stats reads, "" for none
StatsTable(q) ==
  CASE q = "COUNT books" -> "books"
    [] q = "COUNT book_stats" -> "book_stats"
    [] q = "MAX version" -> "schema_version"
    [] OTHER -> ""

GetDatabaseStatsCall(t) == Call(t, "stats", <<>>, NoRet)

\* one statement of get_database_stats: loc.cur keeps books_count, loc.ops
\* the entries of stats_data; the returned map is the set of its items,
\* without the page figures.  COUNT book_stats runs only if has_stats
GetDatabaseStats(t) ==
  LET c == loc[t].conn
      i == loc[t].i
      q == StatsQueries[i]
  IN /\ pc[t] = "st_exec"
     /\ \E ok \in BOOLEAN :
          IF ok /\ conns[c].open /\ (StatsTable(q) = "" \/ StatsTable(q) \in View(c).objs)
          THEN CASE q = "COUNT books" ->
                      /\ loc' = [loc EXCEPT ![t].cur = Cardinality(View(c).books),
                                            ![t].i = i + 1]
                      /\ UNCHANGED <<pc, ret>>
                 [] q = "sqlite_master book_stats" ->
                      /\ loc' = [loc EXCEPT ![t].i =
                                   IF "book_stats" \in View(c).objs THEN i + 1 ELSE i + 2]
                      /\ UNCHANGED <<pc, ret>>
                 [] q = "COUNT book_stats" ->
                      /\ loc' = [loc EXCEPT
                                   ![t].ops = << <<"stats_records", Cardinality(View(c).stats)>> >>,
                                   ![t].i = i + 1]
                      /\ UNCHANGED <<pc, ret>>
                 [] q = "MAX version" ->
                      Return(t, {<<"books_count", loc[t].cur>>,
                                 <<"schema_version", MaxVersion(View(c))>>}
                                  \cup Range(loc[t].ops))
                 [] OTHER ->
                      /\ loc' = [loc EXCEPT ![t].i = i + 1]
                      /\ UNCHANGED <<pc, ret>>
          ELSE Throw(t, "st_exec")
     /\ UNCHANGED <<db, conns, connections, lock, db_manager, runStart, backup>>

\* Python's None as a returned value, apart from 0 and from every row id
PyNone == -1

GetLastInsertIdCall(t) == Call(t, "last_id", <<>>, ret[t])

\* cursor = conn.cursor(); return cursor.lastrowid -- the cursor is new and
\* has executed nothing, so its lastrowid has the initial value None;
\* conn.cursor() raises on a closed connection
GetLastInsertId(t) ==
  /\ pc[t] = "li_read"
  /\ IF conns[loc[t].conn].open
     THEN Return(t, PyNone)
     ELSE Throw(t, "li_read")
  /\ UNCHANGED <<db, conns, connections, lock, db_manager, runStart, backup>>

\* the connections in self._connections
RegisteredConns == {connections[u] : u \in DOMAIN connections}

\* (mutant) the first conn.close() that raises ends the loop: the remaining
\* connections stay open and the registry is not cleared
CloseAllStopsAtRaise(raised) ==
  IF raised = {}
  THEN /\ conns' = [c \in DOMAIN conns |->
                      IF c \in RegisteredConns THEN Closed(conns[c]) ELSE conns[c]]
       /\ connections' = [u \in {} |-> NoConn]
  ELSE UNCHANGED <<conns, connections>>

\* with self._lock: conn.close() for every registered connection, a close
\* that raises (the connections in raised) being logged and passed over,
\* then self._connections.clear()
CloseAll(raised) ==
  /\ conns' = [c \in DOMAIN conns |->
                 IF c \in RegisteredConns \ raised THEN Closed(conns[c]) ELSE conns[c]]
  /\ connections' = [u \in {} |-> NoConn]

\* close_database: if _db_manager: close_all_connections(); _db_manager = None
CloseDatabase(t) ==
  /\ pc[t] = "idle"
  /\ db_manager
  /\ lock = NoThread
  /\ CloseAll({})
  /\ db_manager' = FALSE
  /\ UNCHANGED <<db, lock, pc, loc, ret, runStart, backup>>

(***************************************************************************)
(* Startup specification: the main thread initializes an empty store file, *)
(* any number of times, each run failing at any statement or succeeding.   *)
(***************************************************************************)
InitEmpty ==
  /\ db = EmptyStore
  /\ conns = <<>>
  /\ connections = [u \in {} |-> NoConn]
  /\ lock = NoThread
  /\ db_manager = FALSE
  /\ pc = [t \in Threads |-> "idle"]
  /\ loc = [t \in Threads |-> IdleLoc]
  /\ ret = [t \in Threads |-> NoRet]
  /\ runStart = EmptyStore
  /\ backup = <<>>

NextStartup ==
  \/ GetDatabase(MainThread)
  \/ GetConnectionEnter(MainThread)
  \/ CreateConnection(MainThread)
  \/ Evict(MainThread)
  \/ SetupConnectionSettings(MainThread)
  \/ RunMigrationsTable(MainThread)
  \/ RunMigrationsRead(MainThread)
  \/ RunMigrationsStmt(MainThread)
  \/ RunMigrationsRecord(MainThread)
  \/ RunMigrationsCommit(MainThread)
  \/ CreateIndexes(MainThread)
  \/ CreateIndexesCommit(MainThread)
  \/ CreateTriggers(MainThread)
  \/ CreateTriggersCommit(MainThread)
  \/ VerifyDatabaseIntegrity(MainThread)
  \/ GetSchemaVersionCall(MainThread)
  \/ GetSchemaVersion(MainThread)
  \/ CloseDatabase(MainThread)

SpecStartup == InitEmpty /\ [][NextStartup]_vars

(***************************************************************************)
(* Claims about startup, checked under SpecStartup.                        *)
(***************************************************************************)
\* the last initialization of thread t raised while applying a migration step
FailedInStep(t) ==
  /\ pc[t] = "idle"
  /\ ret[t].op = "init"
  /\ ret[t].kind = "raised"
  /\ ret[t].at \in {"m_stmt", "m_record"}

\* C1: when a statement of pending step v fails, the store afterwards holds
\* no schema object of step v that was absent before the run and no
\* schema_version row for v.
C1_FailedStepLeavesNothing ==
  \A t \in Threads :
    FailedInStep(t) =>
      LET ver == MigrationOrder[ret[t].v] IN
      /\ (ObjsOf(Migrations[ver]) \cap db.objs) \subseteq runStart.objs
      /\ ver \notin Range(db.vers)

\* the recorded versions are exactly 1..k, in ascending order
GapFreePrefix(vs) == \A i \in DOMAIN vs : vs[i] = i

\* C3: in every state reached from an empty store by any sequence of
\* initializations, the versions recorded in schema_version (committed, or
\* pending on a connection) form a gap-free ascending prefix 1..k of the
\* migration list with no version recorded twice.
C3_VersionsGapFreePrefix ==
  /\ GapFreePrefix(db.vers)
  /\ Len(db.vers) <= Len(Migrations)
  /\ \A c \in DOMAIN conns : GapFreePrefix(View(c).vers)

\* a second run, after a failed one, has recorded steps 1 and 2 and not yet 3
C3_Witness ==
  /\ Len(conns) >= 2
  /\ \E c \in DOMAIN conns : conns[c].pend # <<>> /\ View(c).vers = <<1, 2>>

\* C4: after initialization succeeds on an empty store, schema_version holds
\* exactly the rows 1, 2, 3 inserted in that order and get_schema_version()
\* returns 3.
C4_FreshInitGivesVersion3 ==
  /\ db_manager => db.vers = <<1, 2, 3>>
  /\ \A t \in Threads :
       (ret[t].op = "schema_version" /\ ret[t].kind = "returned" /\ ret[t].at = "")
         => ret[t].val = 3

\* get_schema_version() has answered after a run that began on the empty store
C4_Witness ==
  /\ runStart = EmptyStore
  /\ db_manager
  /\ \E t \in Threads :
       ret[t].op = "schema_version" /\ ret[t].kind = "returned" /\ ret[t].at = ""

\* C5: an initialization run on a fully migrated store (versions 1..3
\* recorded) adds no schema_version row and leaves the recorded version and
\* the set of schema objects as they were when the run began.
C5_ReinitChangesNothing ==
  runStart.vers = <<1, 2, 3>> => (db.vers = runStart.vers /\ db.objs = runStart.objs)

\* C6: once migrations 1..3 are applied (recorded and committed), every
\* table, index and trigger the Schema Registry declares exists in the store.
C6_MigratedStoreHasRegistry ==
  db.vers = <<1, 2, 3>> => RegistryObjects \subseteq db.objs

(***************************************************************************)
(* Execution facade.  A statement handed in by a repository is an INSERT   *)
(* or DELETE on books, or text the engine rejects.                         *)
(***************************************************************************)
InsertBook(b) == [k |-> "insert_book", b |-> b]
DeleteBook(b) == [k |-> "delete_book", b |-> b]
InvalidSql == [k |-> "invalid", b |-> ""]

Statements == {InsertBook(b) : b \in BookIds} \cup {DeleteBook(b) : b \in BookIds}
                \cup {InvalidSql}

\* TRUE when the engine accepts statement st on store s (book_id is UNIQUE)
DmlOk(s, st) ==
  CASE st.k = "insert_book" -> "books" \in s.objs /\ st.b \notin s.books
    [] st.k = "delete_book" -> "books" \in s.objs
    [] OTHER -> FALSE

\* (mutant) foreign_keys left OFF: the statistics row survives its book
DmlApplyNoCascade(s, st) ==
  CASE st.k = "insert_book" ->
         [s EXCEPT !.books = @ \cup {st.b},
                   !.stats = IF "trigger_create_book_stats" \in s.objs
                             THEN @ \cup {st.b} ELSE @]
    [] st.k = "delete_book" -> [s EXCEPT !.books = @ \ {st.b}]
    [] OTHER -> s

\* the store after st: trigger_create_book_stats adds the statistics row,
\* ON DELETE CASCADE (foreign_keys = ON) removes it with the book
DmlApply(s, st) ==
  CASE st.k = "insert_book" ->
         [s EXCEPT !.books = @ \cup {st.b},
                   !.stats = IF "trigger_create_book_stats" \in s.objs
                             THEN @ \cup {st.b} ELSE @]
    [] st.k = "delete_book" ->
         [s EXCEPT !.books = @ \ {st.b}, !.stats = @ \ {st.b}]
    [] OTHER -> s

\* cursor.rowcount
RowCount(s, st) ==
  CASE st.k = "insert_book" -> 1
    [] st.k = "delete_book" -> IF st.b \in s.books THEN 1 ELSE 0
    [] OTHER -> 0

ExecuteQueryCall(t) == Call(t, "query", <<>>, ret[t])

\* cursor.execute(query); cursor.fetchall(); return results
ExecuteQuery(t) ==
  LET c == loc[t].conn IN
  /\ pc[t] = "q_exec"
  /\ \E ok \in BOOLEAN :
       IF ok /\ conns[c].open /\ "books" \in View(c).objs
       THEN Return(t, Cardinality(View(c).books))
       ELSE Throw(t, "q_exec")
  /\ UNCHANGED <<db, conns, connections, lock, db_manager, runStart, backup>>

ExecuteCommandCall(t) == \E st \in Statements : Call(t, "command", <<st>>, NoRet)

\* cursor.execute(command)
ExecuteCommand(t) ==
  LET c == loc[t].conn
      st == loc[t].ops[1]
  IN /\ pc[t] = "c_exec"
     /\ \E ok \in BOOLEAN :
          IF ok /\ conns[c].open /\ DmlOk(View(c), st) /\ ~OtherWriter(c)
          THEN /\ DmlDone(c, DmlApply(View(c), st))
               /\ pc' = [pc EXCEPT ![t] = "c_commit"]
               /\ loc' = [loc EXCEPT ![t].i = RowCount(View(c), st)]
               /\ ret' = ret
          ELSE /\ Throw(t, "c_exec")
               /\ DmlFailed(c)
     /\ UNCHANGED <<connections, lock, db_manager, runStart, backup>>

\* (mutant) the row count is returned without conn.commit()
ExecuteCommandCommitSkipped(t) ==
  /\ pc[t] = "c_commit"
  /\ Return(t, loc[t].i)
  /\ UNCHANGED <<db, conns, connections, lock, db_manager, runStart, backup>>

\* conn.commit(); return cursor.rowcount
ExecuteCommandCommit(t) ==
  LET c == loc[t].conn IN
  /\ pc[t] = "c_commit"
  /\ \E ok \in BOOLEAN :
       IF ok /\ conns[c].open
       THEN /\ CommitDone(c)
            /\ Return(t, loc[t].i)
       ELSE /\ Throw(t, "c_commit")
            /\ UNCHANGED <<db, conns>>
  /\ UNCHANGED <<connections, lock, db_manager, runStart, backup>>

\* the operations list is drawn element by element as the loop reads it
ExecuteTransactionCall(t) == Call(t, "transaction", <<>>, NoRet)

\* cursor.execute("BEGIN TRANSACTION"): refused inside an open transaction;
\* the list passed in may be empty
ExecuteTransactionBegin(t) ==
  LET c == loc[t].conn IN
  /\ pc[t] = "t_begin"
  /\ \E ok \in BOOLEAN :
       IF ok /\ conns[c].open /\ ~conns[c].intx
       THEN /\ conns' = [conns EXCEPT ![c].intx = TRUE]
            /\ \E empty \in BOOLEAN :
                 pc' = [pc EXCEPT ![t] = IF empty THEN "t_commit" ELSE "t_op"]
            /\ UNCHANGED <<loc, ret>>
       ELSE /\ Throw(t, "t_begin")
            /\ conns' = conns
  /\ UNCHANGED <<db, connections, lock, db_manager, runStart, backup>>

\* for operation, params in operations: cursor.execute(operation, params);
\* loc.i is the position in the list, loc.ops the operations executed so
\* far; a failure goes to the inner handler
ExecuteTransactionOp(t) ==
  LET c == loc[t].conn
      i == loc[t].i
  IN /\ pc[t] = "t_op"
     /\ \E st \in Statements, ok \in BOOLEAN :
          IF ok /\ conns[c].open /\ DmlOk(View(c), st) /\ ~OtherWriter(c)
          THEN /\ DmlDone(c, DmlApply(View(c), st))
               /\ \E last \in BOOLEAN :
                    pc' = [pc EXCEPT ![t] = IF last \/ i = MaxOps THEN "t_commit" ELSE "t_op"]
               /\ loc' = [loc EXCEPT ![t].i = i + 1]
          ELSE /\ pc' = [pc EXCEPT ![t] = "t_rollback"]
               /\ UNCHANGED <<db, conns, loc>>
     /\ UNCHANGED <<connections, lock, db_manager, ret, runStart, backup>>

\* (mutant) True is returned with the batch still uncommitted
ExecuteTransactionCommitSkipped(t) ==
  /\ pc[t] = "t_commit"
  /\ Return(t, TRUE)
  /\ UNCHANGED <<db, conns, connections, lock, db_manager, runStart, backup>>

\* conn.commit(); return True
ExecuteTransactionCommit(t) ==
  LET c == loc[t].conn IN
  /\ pc[t] = "t_commit"
  /\ \E ok \in BOOLEAN :
       IF ok /\ conns[c].open
       THEN /\ CommitDone(c)
            /\ Return(t, TRUE)
       ELSE /\ pc' = [pc EXCEPT ![t] = "t_rollback"]
            /\ UNCHANGED <<db, conns, loc, ret>>
  /\ UNCHANGED <<connections, lock, db_manager, runStart, backup>>

\* conn.rollback()
RollbackDone(c) ==
  /\ conns' = [conns EXCEPT ![c].intx = FALSE, ![c].pend = <<>>]
  /\ db' = db

\* (mutant) the inner handler commits what the batch did so far
ExecuteTransactionRollbackCommits(t) ==
  /\ pc[t] = "t_rollback"
  /\ db' = View(loc[t].conn)
  /\ conns' = [conns EXCEPT ![loc[t].conn].intx = FALSE, ![loc[t].conn].pend = <<>>]
  /\ Throw(t, "t_rollback")
  /\ UNCHANGED <<connections, lock, db_manager, runStart, backup>>

\* except Exception: conn.rollback(); raise -- the exception then leaves the scope
ExecuteTransactionRollback(t) ==
  /\ pc[t] = "t_rollback"
  /\ RollbackDone(loc[t].conn)
  /\ Throw(t, "t_rollback")
  /\ UNCHANGED <<connections, lock, db_manager, runStart, backup>>

\* close_all_connections() when conn.close() raises for the connections in
\* raised: the outer handler lets nothing out, the call returns None; the
\* record of the call keeps how many closes raised
CloseAllConnectionsWith(t, raised) ==
  /\ pc[t] = "idle"
  /\ db_manager
  /\ lock = NoThread
  /\ CloseAll(raised)
  /\ ret' = [ret EXCEPT ![t] = [NoRet EXCEPT !.op = "close_all", !.kind = "returned",
                                            !.v = Cardinality(raised)]]
  /\ UNCHANGED <<db, lock, db_manager, pc, loc, runStart, backup>>

\* close_all_connections() when every conn.close() succeeds
CloseAllConnections(t) == CloseAllConnectionsWith(t, {})

(***************************************************************************)
(* Maintenance: optimize_database, run_maintenance, backup_database.       *)
(* None of their statements changes a row of books; the DELETE of          *)
(* run_maintenance removes the statistics rows that are a year old and     *)
(* were never downloaded, which the model draws as any set of rows.        *)
(* Connection.backup waits as long as the source connection itself is in   *)
(* a write transaction.                                                    *)
(***************************************************************************)
\* DatabaseOptimizer.get_optimization_queries
OptimizationQueries == <<"PRAGMA optimize", "ANALYZE", "VACUUM", "REINDEX">>

\* DatabaseOptimizer.get_maintenance_queries
MaintenanceQueries ==
  <<"DELETE book_stats", "ANALYZE books", "ANALYZE book_stats", "ANALYZE user_preferences">>

\* TRUE when the engine can run utility statement q on connection c: all but
\* PRAGMA optimize need the write lock, VACUUM refuses inside a transaction
UtilityOk(c, q) ==
  /\ q # "PRAGMA optimize" => ~OtherWriter(c)
  /\ q = "VACUUM" => ~conns[c].intx

OptimizeDatabaseCall(t) == Call(t, "optimize", <<>>, NoRet)

\* for query in get_optimization_queries(): cursor.execute(query); return True
OptimizeDatabase(t) ==
  LET c == loc[t].conn
      i == loc[t].i
  IN /\ pc[t] = "o_exec"
     /\ \E ok \in BOOLEAN :
          IF ok /\ conns[c].open /\ UtilityOk(c, OptimizationQueries[i])
          THEN IF i = Len(OptimizationQueries)
               THEN Return(t, TRUE)
               ELSE /\ loc' = [loc EXCEPT ![t].i = i + 1]
                    /\ UNCHANGED <<pc, ret>>
          ELSE Throw(t, "o_exec")
     /\ UNCHANGED <<db, conns, connections, lock, db_manager, runStart, backup>>

RunMaintenanceCall(t) == Call(t, "maintenance", <<>>, NoRet)

\* control after maintenance query i, executed or skipped: the next query,
\* or return True after the last one
MaintenanceNext(t) ==
  IF loc[t].i = Len(MaintenanceQueries)
  THEN Return(t, TRUE)
  ELSE /\ pc' = [pc EXCEPT ![t] = "rm_exec"]
       /\ loc' = [loc EXCEPT ![t].i = loc[t].i + 1]
       /\ ret' = ret

\* cursor = conn.cursor() before the first query raises on a closed
\* connection; try: cursor.execute(query) ... except: log and go on
RunMaintenance(t) ==
  LET c == loc[t].conn
      i == loc[t].i
  IN /\ pc[t] = "rm_exec"
     /\ IF i = 1 /\ ~conns[c].open
        THEN /\ Throw(t, "rm_exec")
             /\ UNCHANGED <<db, conns>>
        ELSE \E ok \in BOOLEAN :
               IF ok /\ conns[c].open /\ ~OtherWriter(c)
               THEN /\ IF i = 1
                       THEN \E old \in SUBSET View(c).stats :
                              DmlDone(c, [View(c) EXCEPT !.stats = @ \ old])
                       ELSE UNCHANGED <<db, conns>>
                    /\ pc' = [pc EXCEPT ![t] = "rm_commit"]
                    /\ UNCHANGED <<loc, ret>>
               ELSE /\ IF i = 1 THEN DmlFailed(c) ELSE UNCHANGED <<db, conns>>
                    /\ MaintenanceNext(t)
     /\ UNCHANGED <<connections, lock, db_manager, runStart, backup>>

\* conn.commit() inside the same try: a failure is logged and skipped too
RunMaintenanceCommit(t) ==
  LET c == loc[t].conn IN
  /\ pc[t] = "rm_commit"
  /\ \E ok \in BOOLEAN :
       IF ok /\ conns[c].open
       THEN CommitDone(c)
       ELSE UNCHANGED <<db, conns>>
  /\ MaintenanceNext(t)
  /\ UNCHANGED <<connections, lock, db_manager, runStart, backup>>

\* backup_file.parent.mkdir(...) runs before get_connection: its failure is
\* answered with False at once
BackupDatabaseCall(t) ==
  \E ok \in BOOLEAN :
    IF ok
    THEN Call(t, "backup", <<>>, NoRet)
    ELSE /\ pc[t] = "idle"
         /\ db_manager
         /\ ret' = [ret EXCEPT ![t] = [NoRet EXCEPT !.op = "backup", !.kind = "returned",
                                                   !.val = FALSE, !.at = "b_mkdir"]]
         /\ UNCHANGED <<db, conns, connections, lock, db_manager, pc, loc, runStart, backup>>

\* (mutant) the target file is created but no page is copied into it
BackupDatabaseNoCopy(t) ==
  LET c == loc[t].conn IN
  /\ pc[t] = "b_copy"
  /\ ~(conns[c].open /\ conns[c].pend # <<>>)
  /\ \E ok \in BOOLEAN :
       IF ok /\ conns[c].open
       THEN /\ backup' = <<EmptyStore>>
            /\ Return(t, TRUE)
       ELSE /\ backup' = backup
            /\ Throw(t, "b_copy")
  /\ UNCHANGED <<db, conns, connections, lock, db_manager, runStart>>

\* backup_conn = sqlite3.connect(backup_file); source.backup(backup_conn);
\* return True; finally backup_conn.close()
BackupDatabase(t) ==
  LET c == loc[t].conn IN
  /\ pc[t] = "b_copy"
  /\ ~(conns[c].open /\ conns[c].pend # <<>>)
  /\ \E ok \in BOOLEAN :
       IF ok /\ conns[c].open
       THEN /\ backup' = <<db>>
            /\ Return(t, TRUE)
       ELSE /\ backup' = backup
            /\ Throw(t, "b_copy")
  /\ UNCHANGED <<db, conns, connections, lock, db_manager, runStart>>

(***************************************************************************)
(* Facade specification: the state after DatabaseConnection() was          *)
(* constructed by the main thread on an empty store, then any threads      *)
(* calling the facade.                                                     *)
(***************************************************************************)
InitializedStore ==
  [objs |-> RegistryObjects \cup {"schema_version"}, vers |-> <<1, 2, 3>>,
   books |-> {}, stats |-> {}]

Init ==
  /\ db = InitializedStore
  /\ conns = <<NewConn>>
  /\ connections = [u \in {MainThread} |-> 1]
  /\ lock = NoThread
  /\ db_manager = TRUE
  /\ pc = [t \in Threads |-> "idle"]
  /\ loc = [t \in Threads |-> IdleLoc]
  /\ ret = [t \in Threads |->
              IF t = MainThread
              THEN [NoRet EXCEPT !.op = "init", !.kind = "returned", !.conn = 1]
              ELSE NoRet]
  /\ runStart = EmptyStore
  /\ backup = <<>>

\* the connection manager under three threads that only read
Next ==
  \E t \in Threads :
    \/ ExecuteQueryCall(t)
    \/ GetConnectionEnter(t)
    \/ CreateConnection(t)
    \/ Evict(t)
    \/ ExecuteQuery(t)
    \/ CloseAllConnections(t)

Spec == Init /\ [][Next]_vars

\* the threads that write in SpecWrite
Writers == {"T0", "T1"}

\* commands and transaction batches of two threads
NextWrite ==
  \E t \in Writers :
    \/ ExecuteCommandCall(t)
    \/ ExecuteTransactionCall(t)
    \/ GetConnectionEnter(t)
    \/ CreateConnection(t)
    \/ Evict(t)
    \/ ExecuteCommand(t)
    \/ ExecuteCommandCommit(t)
    \/ ExecuteTransactionBegin(t)
    \/ ExecuteTransactionOp(t)
    \/ ExecuteTransactionCommit(t)
    \/ ExecuteTransactionRollback(t)
    \/ CloseAllConnections(t)

SpecWrite == Init /\ [][NextWrite]_vars

\* a query by a caller that does not compare it with its previous call
ExecuteQueryOnce(t) == Call(t, "query", <<>>, NoRet)

\* queries, commands and the maintenance operations of the main thread
\* while a second thread runs commands
NextMaint ==
  \/ ExecuteQueryOnce(MainThread)
  \/ OptimizeDatabaseCall(MainThread)
  \/ RunMaintenanceCall(MainThread)
  \/ BackupDatabaseCall(MainThread)
  \/ ExecuteQuery(MainThread)
  \/ OptimizeDatabase(MainThread)
  \/ RunMaintenance(MainThread)
  \/ RunMaintenanceCommit(MainThread)
  \/ BackupDatabase(MainThread)
  \/ \E t \in Writers :
       \/ ExecuteCommandCall(t)
       \/ GetConnectionEnter(t)
       \/ CreateConnection(t)
       \/ Evict(t)
       \/ ExecuteCommand(t)
       \/ ExecuteCommandCommit(t)

SpecMaint == Init /\ [][NextMaint]_vars

\* shutdown under load: three threads run queries while any of them calls
\* close_all_connections(), any conn.close() of which may raise
NextClose ==
  \E t \in Threads :
    \/ ExecuteQueryOnce(t)
    \/ GetConnectionEnter(t)
    \/ CreateConnection(t)
    \/ Evict(t)
    \/ ExecuteQuery(t)
    \/ \E raised \in SUBSET RegisteredConns : CloseAllConnectionsWith(t, raised)

SpecClose == Init /\ [][NextClose]_vars

\* a thread of the application that uses the facade get_database() hands out
Repository == "T1"

\* the whole life of the store: the main thread constructs the manager on an
\* empty store, any number of times, and closes it, while a repository
\* thread calls the facade whenever get_database() hands it out
NextLife ==
  \/ GetDatabase(MainThread)
  \/ SetupConnectionSettings(MainThread)
  \/ RunMigrationsTable(MainThread)
  \/ RunMigrationsRead(MainThread)
  \/ RunMigrationsStmt(MainThread)
  \/ RunMigrationsRecord(MainThread)
  \/ RunMigrationsCommit(MainThread)
  \/ CreateIndexes(MainThread)
  \/ CreateIndexesCommit(MainThread)
  \/ CreateTriggers(MainThread)
  \/ CreateTriggersCommit(MainThread)
  \/ VerifyDatabaseIntegrity(MainThread)
  \/ CloseDatabase(MainThread)
  \/ ExecuteQueryOnce(Repository)
  \/ ExecuteCommandCall(Repository)
  \/ ExecuteTransactionCall(Repository)
  \/ OptimizeDatabaseCall(Repository)
  \/ BackupDatabaseCall(Repository)
  \/ ExecuteQuery(Repository)
  \/ ExecuteCommand(Repository)
  \/ ExecuteCommandCommit(Repository)
  \/ ExecuteTransactionBegin(Repository)
  \/ ExecuteTransactionOp(Repository)
  \/ ExecuteTransactionCommit(Repository)
  \/ ExecuteTransactionRollback(Repository)
  \/ OptimizeDatabase(Repository)
  \/ BackupDatabase(Repository)
  \/ \E t \in {MainThread, Repository} :
       \/ GetConnectionEnter(t)
       \/ CreateConnection(t)
       \/ Evict(t)

SpecLife == InitEmpty /\ [][NextLife]_vars

\* the connection manager under fair scheduling: three threads run queries
\* and call close_all_connections(); a thread that can take a step of a
\* call takes one, and a thread for which self._lock is free again and
\* again acquires it.  Starting a call is up to the caller.
NextLock ==
  \E t \in Threads :
    \/ ExecuteQueryOnce(t)
    \/ GetConnectionEnter(t)
    \/ CreateConnection(t)
    \/ Evict(t)
    \/ ExecuteQuery(t)
    \/ CloseAllConnections(t)

\* a step of a call thread t is in
CallStep(t) ==
  \/ GetConnectionEnter(t)
  \/ CreateConnection(t)
  \/ Evict(t)
  \/ ExecuteQuery(t)

\* of the four steps only the one at the thread's position can be enabled;
\* the two that acquire the lock are enabled whenever it is free (strong
\* fairness: the lock is granted to a thread that finds it free again and
\* again), the two others stay enabled until taken
Fairness == \A t \in Threads : SF_vars(CallStep(t))

SpecLock == Init /\ [][NextLock]_vars /\ Fairness

\* the threads that call get_database() in SpecSingleton
Callers == {"T0", "T1"}

\* get_database() called from two threads with no lock around the test of
\* _db_manager.  Each thread that finds it None constructs an instance of
\* its own, with its own registry and lock; a constructing thread touches
\* only its own instance, so the registries are kept in one map by thread
NextSingleton ==
  \E t \in Callers :
    \/ GetDatabase(t)
    \/ GetConnectionEnter(t)
    \/ CreateConnection(t)
    \/ Evict(t)
    \/ SetupConnectionSettings(t)
    \/ RunMigrationsTable(t)
    \/ RunMigrationsRead(t)
    \/ RunMigrationsStmt(t)
    \/ RunMigrationsRecord(t)
    \/ RunMigrationsCommit(t)
    \/ CreateIndexes(t)
    \/ CreateIndexesCommit(t)
    \/ CreateTriggers(t)
    \/ CreateTriggersCommit(t)
    \/ VerifyDatabaseIntegrity(t)
    \/ CloseDatabase(t)

SpecSingleton == InitEmpty /\ [][NextSingleton]_vars

\* the main thread writes through execute_command and inspects the store
\* while a repository thread reads
NextInspect ==
  \/ ExecuteCommandCall(MainThread)
  \/ ExecuteCommand(MainThread)
  \/ ExecuteCommandCommit(MainThread)
  \/ GetLastInsertIdCall(MainThread)
  \/ GetLastInsertId(MainThread)
  \/ GetSchemaVersionCall(MainThread)
  \/ GetSchemaVersion(MainThread)
  \/ GetDatabaseStatsCall(MainThread)
  \/ GetDatabaseStats(MainThread)
  \/ ExecuteQueryOnce(Repository)
  \/ ExecuteQuery(Repository)
  \/ \E t \in {MainThread, Repository} :
       \/ GetConnectionEnter(t)
       \/ CreateConnection(t)
       \/ Evict(t)

SpecInspect == Init /\ [][NextInspect]_vars

(***************************************************************************)
(* Claims about the facade and the connection manager.                     *)
(***************************************************************************)
\* the positions inside a get_connection scope
BodyPcs ==
  {"q_exec", "sv_exec", "c_exec", "c_commit", "t_begin", "t_op", "t_commit", "t_rollback",
   "o_exec", "rm_exec", "rm_commit", "b_copy", "li_read", "st_exec"}

InScope(t) == pc[t] \in BodyPcs

\* thread t took the step
StepOf(t) == pc'[t] # pc[t] \/ loc'[t] # loc[t]

\* C2: when an operation of an execute_transaction batch fails, at any
\* position, the call returns False and no step of the call has changed the
\* committed contents of the store: the only step of a batch that changes
\* them is its commit, after which the call returns True.
C2_FailedBatchChangesNothing ==
  [][\A t \in Threads :
       (loc[t].op = "transaction" /\ StepOf(t)) =>
         /\ db' # db => (pc'[t] = "idle" /\ ret'[t].kind = "returned" /\ ret'[t].at = "")
         /\ (pc'[t] = "idle" /\ ret'[t].at # "") =>
              (ret'[t].kind = "returned" /\ ret'[t].val = FALSE)]_vars

\* a batch failed at its second operation, after the first one was applied,
\* and the call has returned False
C2_Witness ==
  \E t \in Threads :
    /\ pc[t] = "idle"
    /\ ret[t].op = "transaction"
    /\ ret[t].at = "t_rollback"
    /\ ret[t].i = 2
    /\ ret[t].val = FALSE

\* C7: two consecutive get_connection() calls of a thread, with no failure
\* in the first scope and its connection not closed by close_all_connections
\* in between, yield the same connection; threads inside a scope at the
\* same time hold different connections.
C7_SameThreadSameConnection ==
  /\ \A t \in Threads :
       (/\ InScope(t)
        /\ loc[t].prev.kind = "returned"
        /\ loc[t].prev.at = ""
        /\ loc[t].prev.conn # NoConn
        /\ conns[loc[t].prev.conn].open)
         => loc[t].conn = loc[t].prev.conn
  /\ \A t, u \in Threads :
       (t # u /\ InScope(t) /\ InScope(u)) => loc[t].conn # loc[u].conn

\* a thread is in its second scope in a row while another thread is in one
C7_Witness ==
  \E t, u \in Threads :
    /\ t # u
    /\ InScope(t)
    /\ InScope(u)
    /\ loc[t].prev.op = "query"
    /\ loc[t].prev.kind = "returned"
    /\ loc[t].conn = loc[t].prev.conn

\* thread t is inside the scope of its first facade call
FirstCall(t) == InScope(t) /\ loc[t].prev.op \in {"", "init"}

\* thread w has not called the facade yet
NeverCalled(w) == pc[w] = "idle" /\ ret[w].op \in {"", "init"}

\* on a just initialized store, t and u are inside their first scopes at the
\* same time and no other thread has called
FreshPair(t, u) ==
  /\ t # u
  /\ FirstCall(t)
  /\ FirstCall(u)
  /\ \A w \in Threads \ {t, u} : NeverCalled(w)

\* both threads of the pair were handed their own registered, open connection
PairServed(t, u) ==
  /\ {t, u} \subseteq DOMAIN connections
  /\ connections[t] = loc[t].conn
  /\ connections[u] = loc[u].conn
  /\ loc[t].conn # loc[u].conn
  /\ conns[loc[t].conn].open
  /\ conns[loc[u].conn].open

\* a further call of a thread that holds an entry, nothing having been closed
FurtherCall(t) ==
  /\ InScope(t)
  /\ loc[t].prev.op = "query"
  /\ loc[t].prev.kind = "returned"
  /\ \A c \in DOMAIN conns : conns[c].open

\* C8 as stated: two threads calling get_connection() concurrently on a just
\* initialized store each receive a connection and the registry then holds
\* exactly two entries; a further call of a thread holding an entry returns
\* the same connection and creates no entry.
C8_ExactlyTwoEntries ==
  /\ \A t, u \in Threads :
       FreshPair(t, u) => (PairServed(t, u) /\ Cardinality(DOMAIN connections) = 2)
  /\ \A t \in Threads :
       FurtherCall(t) =>
         (loc[t].conn = loc[t].prev.conn /\ Len(conns) = Cardinality(DOMAIN connections))

\* C8 amended: the registry then holds one entry for each of the two threads
\* besides the entry the initialization left for the constructing thread
\* (two entries when one of the two is the constructing thread, otherwise
\* three); a further call of a thread holding an entry returns the same
\* connection and creates no entry.
C8_TwoEntriesBesidesConstructor ==
  /\ \A t, u \in Threads :
       FreshPair(t, u) =>
         (PairServed(t, u) /\ DOMAIN connections = {t, u} \cup {MainThread})
  /\ \A t \in Threads :
       FurtherCall(t) =>
         (loc[t].conn = loc[t].prev.conn /\ Len(conns) = Cardinality(DOMAIN connections))

\* two threads other than the constructing one are in their first scopes
C8_Witness ==
  \E t, u \in Threads : FreshPair(t, u) /\ MainThread \notin {t, u}

\* C9: the registry never holds one connection under two thread
\* identifiers, every entry is a connection that was created, and the
\* connection a thread was handed is never registered under another thread.
C9_OneOwnerPerConnection ==
  /\ DOMAIN connections \subseteq Threads
  /\ \A t \in DOMAIN connections : connections[t] \in DOMAIN conns
  /\ \A t, u \in DOMAIN connections : t # u => connections[t] # connections[u]
  /\ \A t \in Threads :
       InScope(t) =>
         \A u \in DOMAIN connections \ {t} : connections[u] # loc[t].conn

\* after a connection was closed, two threads are registered
C9_Witness ==
  /\ Cardinality(DOMAIN connections) = 2
  /\ Len(conns) = 3
  /\ \E c \in DOMAIN conns : ~conns[c].open

\* the last call of thread t failed inside the scope
FailedInScope(r) == r.at \in BodyPcs

\* C10: when an operation inside a scope of thread t raises, t's connection
\* is closed and out of the registry once the exception has left
\* get_connection; t's next call runs on a connection created after the
\* fault, registered for t, and, no other thread having used the manager,
\* the registry has as many entries as before the fault.
C10_EvictedThenFresh ==
  /\ \A t \in Threads :
       (pc[t] = "idle" /\ FailedInScope(ret[t])) =>
         (~conns[ret[t].conn].open /\ t \notin DOMAIN connections)
  /\ \A t \in Threads :
       (InScope(t) /\ FailedInScope(loc[t].prev)) =>
         /\ loc[t].conn > loc[t].prev.conn
         /\ ~conns[loc[t].prev.conn].open
         /\ (\A w \in Threads \ {t} : NeverCalled(w)) =>
              /\ t \in DOMAIN connections
              /\ connections[t] = loc[t].conn
              /\ conns[loc[t].conn].open
              /\ Cardinality(DOMAIN connections) = loc[t].prev.n

\* a thread other than the constructing one is in the scope of the call
\* that follows its failed one, the other threads never having called
C10_Witness ==
  \E t \in Threads \ {MainThread} :
    /\ InScope(t)
    /\ FailedInScope(loc[t].prev)
    /\ \A w \in Threads \ {t} : NeverCalled(w)
    /\ loc[t].prev.n = 2

\* the positions at which a thread opens and configures a connection or
\* runs a statement on one
IoPcs == BodyPcs \cup {"gc_create"}

\* C11: no thread holds the registry lock while a connection is being opened
\* or configured or while a statement is being executed.
C11_NoIoUnderLock == \A t \in Threads : lock = t => pc[t] \notin IoPcs

\* the rows of books that differ between stores s1 and s2
ChangedBooks(s1, s2) == (s1.books \ s2.books) \cup (s2.books \ s1.books)

\* C12: when execute_command returns normally with value n, the statement's
\* effect is committed at the return, no connection is left reading anything
\* but the committed store, and n is the number of rows of books the
\* statement changed.
C12_CommandCommittedAndCounted ==
  [][\A t \in Threads :
       (loc[t].op = "command" /\ pc'[t] = "idle" /\ ret'[t].kind = "returned") =>
         LET st == loc[t].ops[1] IN
         /\ \A c \in DOMAIN conns' : conns'[c].pend = <<>>
         /\ (st.k = "insert_book") => (st.b \in db'.books)
         /\ (st.k = "delete_book") => (st.b \notin db'.books)
         /\ ret'[t].val = Cardinality(ChangedBooks(db, db'))]_vars

\* an INSERT through execute_command has returned 1 while another thread's
\* connection exists
C12_Witness ==
  \E t \in Threads :
    /\ pc[t] = "idle"
    /\ ret[t].op = "command"
    /\ ret[t].kind = "returned"
    /\ ret[t].val = 1
    /\ db.books # {}
    /\ Cardinality(DOMAIN connections) >= 2

\* C13: whenever the statement of execute_query or execute_command fails,
\* the call raises to its caller: a statement the engine rejects sends the
\* call to the exception handler, the handler ends the call by raising, and
\* a call that returned a row list or a row count had no failure.
C13_FailedStatementRaises ==
  [][\A t \in Threads :
       (loc[t].op \in {"query", "command"} /\ StepOf(t)) =>
         /\ (pc[t] = "c_exec" /\ ~DmlOk(View(loc[t].conn), loc[t].ops[1]))
              => pc'[t] = "ex_enter"
         /\ pc[t] = "ex_enter" => (pc'[t] = "idle" /\ ret'[t].kind = "raised")
         /\ (pc'[t] = "idle" /\ ret'[t].kind = "returned") =>
              (ret'[t].at = "" /\ pc[t] \in {"q_exec", "c_commit"})]_vars

\* an execute_query and an execute_command have both raised at their statement
C13_Witness ==
  \E t, u \in Threads :
    /\ pc[t] = "idle"
    /\ ret[t].op = "query"
    /\ ret[t].kind = "raised"
    /\ ret[t].at = "q_exec"
    /\ pc[u] = "idle"
    /\ ret[u].op = "command"
    /\ ret[u].kind = "raised"
    /\ ret[u].at = "c_exec"

\* how far a call has come: the place in the code (p) and, inside a loop,
\* the iteration (l.v, l.i); every statement of a call has its own value
Progress(p, l) ==
  CASE p = "gc_enter" -> 100
    [] p = "gc_create" -> 200
    [] p \in {"i_setup", "q_exec", "sv_exec", "c_exec", "t_begin", "b_copy", "li_read"} -> 300
    [] p \in {"o_exec", "st_exec"} -> 300 + l.i
    [] p = "rm_exec" -> 300 + 2 * l.i
    [] p = "rm_commit" -> 301 + 2 * l.i
    [] p \in {"m_table", "c_commit"} -> 400
    [] p = "t_op" -> 400 + l.i
    [] p \in {"m_read", "t_commit"} -> 500
    [] p = "t_rollback" -> 550
    [] p = "m_stmt" -> 600 + 20 * l.v + l.i
    [] p = "m_record" -> 619 + 20 * l.v
    [] p = "m_commit" -> 700
    [] p = "x_index" -> 800 + l.i
    [] p = "x_commit" -> 900
    [] p = "g_trigger" -> 1000 + l.i
    [] p = "g_commit" -> 1100
    [] p = "v_check" -> 1200
    [] p = "ex_enter" -> 5000
    [] OTHER -> 9000

\* C14: nothing is retried: every step of a call (startup initialization,
\* execute_query, execute_command, execute_transaction, backup_database,
\* optimize_database), failed or not, moves the call forward to a later
\* statement, to the exception handler or to its end, so no statement and
\* no connection creation is submitted twice within one call; after a
\* failure has reached the handler of get_connection the call only ends.
C14_NoRetry ==
  [][\A t \in Threads :
       (pc[t] # "idle" /\ StepOf(t)) =>
         /\ Progress(pc'[t], loc'[t]) > Progress(pc[t], loc[t])
         /\ pc[t] = "ex_enter" => pc'[t] = "idle"]_vars

\* an initialization has ended at a failed connection creation and a call
\* of the repository thread has ended at a failed statement
C14_Witness ==
  /\ pc[MainThread] = "idle"
  /\ ret[MainThread].op = "init"
  /\ ret[MainThread].at = "gc_create"
  /\ pc[Repository] = "idle"
  /\ ret[Repository].at \in {"q_exec", "c_exec", "t_rollback", "o_exec", "b_copy"}

\* the store holds everything a completed initialization leaves
FullyInitialized(s) ==
  /\ s.vers = <<1, 2, 3>>
  /\ RegistryObjects \cup {"schema_version"} \subseteq s.objs

\* C15: when a startup step fails (connection creation, PRAGMA setup,
\* migrations, index or trigger creation, the integrity check), the
\* construction raises, the singleton stays unset and the registry is left
\* empty; the singleton is never set while an initialization runs, and when
\* it is set the store is fully initialized.
C15_FailedStartupExposesNothing ==
  /\ \A t \in Threads :
       (pc[t] = "idle" /\ ret[t].op = "init" /\ ret[t].at # "") =>
         (ret[t].kind = "raised" /\ ~db_manager /\ DOMAIN connections = {})
  /\ \A t \in Threads : (pc[t] # "idle" /\ loc[t].op = "init") => ~db_manager
  /\ db_manager => FullyInitialized(db)

\* the integrity check has failed on a store whose migrations are committed
C15_Witness ==
  \E t \in Threads :
    /\ pc[t] = "idle"
    /\ ret[t].op = "init"
    /\ ret[t].at = "v_check"
    /\ ret[t].kind = "raised"
    /\ db.vers = <<1, 2, 3>>

\* C16: no execute_query, execute_command or execute_transaction starts
\* before the initialization has completed: at the step that starts such a
\* call get_database() has published the instance, no initialization is
\* running, and the store holds every migration, index and trigger; while
\* such a call runs the store stays fully initialized.
C16_NoCallBeforeMigrations ==
  [][\A t \in Threads :
       /\ (pc[t] = "idle" /\ pc'[t] = "gc_enter"
             /\ loc'[t].op \in {"query", "command", "transaction"}) =>
            /\ db_manager
            /\ FullyInitialized(db)
            /\ \A u \in Threads : loc[u].op # "init"
       /\ (pc'[t] # "idle" /\ loc'[t].op \in {"query", "command", "transaction"}) =>
            FullyInitialized(db')]_vars

\* the repository thread runs a query on its own connection after the main
\* thread has completed the initialization
C16_Witness ==
  /\ pc[Repository] = "q_exec"
  /\ db_manager
  /\ Repository \in DOMAIN connections
  /\ ret[MainThread].op = "init"
  /\ ret[MainThread].kind = "returned"

\* C17: close_all_connections() closes every connection registered at that
\* moment, one whose close() raises excepted (it is passed over and the
\* remaining ones are still closed), leaves the registry empty, touches no
\* other connection and returns normally to its caller in every case.
C17_CloseAllClosesAndEmpties ==
  [][(pc' = pc) =>
       \E t \in Threads :
         /\ pc[t] = "idle"
         /\ ret'[t].op = "close_all"
         /\ ret'[t].kind = "returned"
         /\ \A u \in Threads \ {t} : ret'[u] = ret[u]
         /\ DOMAIN connections' = {}
         /\ Cardinality({c \in RegisteredConns : conns'[c].open}) = ret'[t].v
         /\ \A c \in DOMAIN conns \ RegisteredConns : conns'[c] = conns[c]]_vars

\* three connections were registered, the close of one of them raised, the
\* other two are closed and the registry is empty
C17_Witness ==
  \E t \in Threads :
    /\ ret[t].op = "close_all"
    /\ ret[t].v = 1
    /\ DOMAIN connections = {}
    /\ Len(conns) = 3
    /\ Cardinality({c \in DOMAIN conns : conns[c].open}) = 1

MaintenanceOps == {"optimize", "maintenance", "backup"}

C19_BackupCopiesCommitted ==
  [][\A t \in Threads :
       (pc[t] = "b_copy" /\ pc'[t] = "idle" /\ ret'[t].kind = "returned"
          /\ ret'[t].val = TRUE) =>
         /\ Len(backup') = 1
         /\ backup'[1].objs = db.objs
         /\ backup'[1].vers = db.vers
         /\ backup'[1].books = db.books
         /\ backup'[1].stats = db.stats
         /\ db' = db
         /\ conns' = conns
         /\ t \in DOMAIN connections'
         /\ connections'[t] = loc[t].conn
         /\ conns'[connections'[t]].open]_vars

\* a backup taken while the store held a committed book and another
\* thread's connection held an uncommitted change returned True
C19_Witness ==
  \E t \in Threads :
    /\ pc[t] = "idle"
    /\ ret[t].op = "backup"
    /\ ret[t].val = TRUE
    /\ backup = <<db>>
    /\ db.books # {}
    /\ \E c \in DOMAIN conns : conns[c].pend # <<>> /\ View(c) # db

\* C20: on a fully initialized store no book_stats row references a book_id
\* that is absent from books, neither in the committed store nor in the
\* uncommitted state any connection sees: a DELETE on books removes the
\* book_stats rows of that book_id in the same statement.
C20_NoOrphanStats ==
  /\ db.stats \subseteq db.books
  /\ \A c \in DOMAIN conns : View(c).stats \subseteq View(c).books

\* both writers' last execute_command changed one row and the store holds no
\* book and no statistics row: an inserted book was deleted again and its
\* statistics row went with it
C20_Witness ==
  /\ \A t \in Writers :
       /\ pc[t] = "idle"
       /\ ret[t].op = "command"
       /\ ret[t].kind = "returned"
       /\ ret[t].val = 1
  /\ db.books = {}
  /\ db.stats = {}

\* C21: the operations of an execute_transaction batch run one after the
\* other inside the transaction its BEGIN opened, each on the result of the
\* one before and none of them changing the committed store; the call
\* returns True only from its commit, which makes the accumulated effects of
\* all operations the committed store in one step and leaves no transaction
\* open on the connection.
C21_BatchCommittedThenTrue ==
  [][\A t \in Threads :
       (loc[t].op = "transaction" /\ StepOf(t)) =>
         LET c == loc[t].conn IN
         /\ (pc[t] = "t_op" /\ pc'[t] \in {"t_op", "t_commit"}) =>
              /\ conns[c].intx
              /\ conns'[c].intx
              /\ db' = db
              /\ loc'[t].i = loc[t].i + 1
              /\ \E st \in Statements :
                   DmlOk(View(c), st) /\ conns'[c].pend = <<DmlApply(View(c), st)>>
         /\ (pc'[t] = "idle" /\ ret'[t].kind = "returned" /\ ret'[t].val = TRUE) =>
              /\ pc[t] = "t_commit"
              /\ conns[c].intx
              /\ db' = View(c)
              /\ conns'[c].pend = <<>>
              /\ ~conns'[c].intx]_vars

\* a batch of the only thread that ever called has returned True and the
\* book it inserted is committed
C21_Witness ==
  \E t \in Threads :
    /\ pc[t] = "idle"
    /\ ret[t].op = "transaction"
    /\ ret[t].kind = "returned"
    /\ ret[t].val = TRUE
    /\ db.books # {}
    /\ \A w \in Threads \ {t} : NeverCalled(w)

\* C22: when a statement of migration step k fails, every step below k is
\* committed after the failure: its schema objects and its schema_version
\* row are in the store, and the recorded maximum version is k-1.
C22_EarlierStepsStayCommitted ==
  \A t \in Threads :
    FailedInStep(t) =>
      LET ver == MigrationOrder[ret[t].v] IN
      /\ MaxVersion(db) = ver - 1
      /\ \A j \in 1..(ver - 1) :
           j \in Range(db.vers) /\ ObjsOf(Migrations[j]) \subseteq db.objs

\* C23: the eviction that follows a failure on thread t removes t's registry
\* entry and closes that one connection; the entries of all other threads
\* and every other connection are as before, and no connection is created,
\* so the failure costs t's connection only.
C23_EvictionTouchesOwnEntryOnly ==
  [][\A t \in Threads :
       (pc[t] = "ex_enter" /\ pc'[t] = "idle") =>
         /\ t \notin DOMAIN connections'
         /\ DOMAIN connections' = DOMAIN connections \ {t}
         /\ \A u \in DOMAIN connections' : connections'[u] = connections[u]
         /\ Len(conns') = Len(conns)
         /\ \A c \in DOMAIN conns :
              IF t \in DOMAIN connections /\ c = connections[t]
              THEN ~conns'[c].open
              ELSE conns'[c] = conns[c]]_vars

\* one thread's call has failed and been evicted while the two other
\* threads keep their registered, open connections
C23_Witness ==
  \E t \in Threads :
    /\ pc[t] = "idle"
    /\ FailedInScope(ret[t])
    /\ ~conns[ret[t].conn].open
    /\ DOMAIN connections = Threads \ {t}
    /\ \A u \in Threads \ {t} : conns[connections[u]].open

\* every registered connection, and every connection a thread was handed,
\* carries all the settings of PragmaSettings
RegistryConfigured ==
  /\ \A u \in DOMAIN connections : conns[connections[u]].pragmas = Len(PragmaSettings)
  /\ \A t \in Threads : InScope(t) => conns[loc[t].conn].pragmas = Len(PragmaSettings)

\* C24: every connection in the registry was configured with all six
\* settings of SQLITE_PRAGMA_SETTINGS, the same for every connection; a
\* connection creation that failed inserts nothing into the registry.
C24_RegisteredConnectionsConfigured ==
  [][/\ RegistryConfigured
     /\ RegistryConfigured'
     /\ \A t \in Threads :
          (pc[t] = "gc_create" /\ StepOf(t)) =>
            IF pc'[t] = "ex_enter"
            THEN connections' = connections /\ conns' = conns
            ELSE /\ t \in DOMAIN connections'
                 /\ connections'[t] = Len(conns')
                 /\ conns'[connections'[t]] = NewConn]_vars

\* a connection creation has failed for one thread while the two other
\* threads hold registered connections
C24_Witness ==
  \E t \in Threads :
    /\ pc[t] = "idle"
    /\ ret[t].at = "gc_create"
    /\ ret[t].kind = "raised"
    /\ DOMAIN connections = Threads \ {t}
    /\ Len(conns) < MaxConns

\* the threads that are constructing a DatabaseConnection
Constructing == {t \in Threads : pc[t] # "idle" /\ loc[t].op = "init"}

\* C25: whatever the interleaving of get_database() calls, at most one
\* DatabaseConnection is under construction at any time, and none is
\* constructed while the singleton is set.
C25_OneInstance ==
  /\ Cardinality(Constructing) <= 1
  /\ db_manager => Constructing = {}

\* the call before this one of thread t was an execute_command that
\* inserted a book through the connection t is on now (t is the only writer:
\* a command that changed one row and left the book in the store inserted it)
JustInserted(t) ==
  /\ loc[t].prev.op = "command"
  /\ loc[t].prev.kind = "returned"
  /\ loc[t].prev.val = 1
  /\ loc[t].prev.conn = loc[t].conn
  /\ db.books # {}

\* C26: get_last_insert_id() called right after a successful INSERT through
\* the thread's connection returns the row id of that row, a positive
\* integer; it returns 0 only when it failed.
C26_LastInsertIdIsRowId ==
  [][\A t \in Threads :
       (pc[t] = "li_read" /\ pc'[t] = "idle") =>
         /\ JustInserted(t) => ret'[t].val >= 1
         /\ ret'[t].val = 0 => ret'[t].at # ""]_vars

\* C27: while a thread is inside a get_connection scope the connection it
\* was handed is open: no other thread closes it under the thread's hands.
C27_NoCloseWhileInUse ==
  \A t \in Threads : InScope(t) => conns[loc[t].conn].open

\* the positions at which a thread asks for self._lock
LockWaitPcs == {"gc_enter", "ex_enter"}

\* self._lock is held only by a thread inside _create_connection, whose
\* next step releases it
LockHeldOnlyWhileCreating == \A t \in Threads : lock = t => pc[t] = "gc_create"

C29_FailedCommandLeavesNothing ==
  [][\A t \in Threads :
       (loc[t].op = "command" /\ StepOf(t)) =>
         /\ db' # db =>
              (pc[t] = "c_commit" /\ pc'[t] = "idle" /\ ret'[t].kind = "returned")
         /\ (pc'[t] = "idle" /\ ret'[t].kind = "raised") =>
              /\ t \notin DOMAIN connections'
              /\ ret'[t].conn # NoConn =>
                   /\ ~conns'[ret'[t].conn].open
                   /\ ~conns'[ret'[t].conn].intx
                   /\ conns'[ret'[t].conn].pend = <<>>
         /\ \A c \in DOMAIN conns' : ~conns'[c].open => conns'[c].pend = <<>>]_vars

\* the INSERT of an execute_command succeeded and its commit failed; the
\* call has raised, no other thread ever called, and the book is not in the
\* store
C29_Witness ==
  \E t \in Threads :
    /\ pc[t] = "idle"
    /\ ret[t].op = "command"
    /\ ret[t].kind = "raised"
    /\ ret[t].at = "c_commit"
    /\ ret[t].i = 1
    /\ ~conns[ret[t].conn].open
    /\ db.books = {}
    /\ \A w \in Threads \ {t} : NeverCalled(w)

\* the lists of versions a schema_version table can hold
VersionLists ==
  {<<>>} \cup {<<a>> : a \in 1..3} \cup {<<a, b>> : a, b \in 1..3}
    \cup {<<a, b, c>> : a, b, c \in 1..3}

\* SELECT MAX(version) with NULL mapped to 0: 0 exactly for the empty table,
\* otherwise the greatest version recorded
MaxVersionIsMaximum ==
  \A vs \in VersionLists :
    LET m == MaxVersion([EmptyStore EXCEPT !.vers = vs]) IN
    /\ m = 0 <=> vs = <<>>
    /\ vs # <<>> => (m \in Range(vs) /\ \A i \in DOMAIN vs : vs[i] <= m)

InspectOps == {"schema_version", "stats"}

\* C30: get_schema_version() returns the maximum version recorded, and 0
\* exactly when nothing is recorded or the read failed; get_database_stats()
\* returns the empty map exactly when it failed and otherwise the counts and
\* the version it read; neither raises, and a failure inside either closes
\* the calling thread's connection and drops it from the registry.
C30_InspectionNeverRaises ==
  [][/\ MaxVersionIsMaximum
     /\ \A t \in Threads :
          (loc[t].op \in InspectOps /\ StepOf(t) /\ pc'[t] = "idle") =>
            /\ ret'[t].kind = "returned"
            /\ pc[t] = "sv_exec" =>
                 /\ ret'[t].at = ""
                 /\ ret'[t].val = MaxVersion(View(loc[t].conn))
                 /\ ret'[t].val = 0 <=> View(loc[t].conn).vers = <<>>
            /\ pc[t] = "st_exec" =>
                 /\ ret'[t].at = ""
                 /\ ret'[t].val # {}
                 /\ <<"schema_version", MaxVersion(View(loc[t].conn))>> \in ret'[t].val
                 /\ <<"books_count", loc[t].cur>> \in ret'[t].val
            /\ pc[t] = "ex_enter" =>
                 /\ ret'[t].at # ""
                 /\ loc[t].op = "schema_version" => ret'[t].val = 0
                 /\ loc[t].op = "stats" => ret'[t].val = {}
                 /\ t \notin DOMAIN connections'
                 /\ ret'[t].conn # NoConn => ~conns'[ret'[t].conn].open]_vars

\* get_database_stats() has answered a failed statement with the empty map
\* after a book was committed, and the thread's connection is closed
C30_Witness ==
  \E t \in Threads :
    /\ pc[t] = "idle"
    /\ ret[t].op = "stats"
    /\ ret[t].kind = "returned"
    /\ ret[t].at = "st_exec"
    /\ ret[t].val = {}
    /\ ~conns[ret[t].conn].open
    /\ t \notin DOMAIN connections
    /\ db.books # {}

=============================================================================
